---- MODULE Spec2Model ----
(***************************************************************************)
(* Task Management API (app/main.py, app/models.py): the users and tasks   *)
(* collections, and the six request handlers, each split at its awaits on  *)
(* the store so that concurrent requests interleave as coroutines do.      *)
(***************************************************************************)
EXTENDS Integers, Sequences, FiniteSets, TLC

\* ------------------------------------------------------------ bounds
\* ObjectIds ever generated (users and tasks share the generator).
MaxOid == 4
\* Readings of datetime.utcnow(): each reading is later than the one before.
MaxTime == 3
\* Largest limit a get_tasks request asks for.
MaxLimit == 2
\* Largest page a get_tasks request asks for.
MaxPage == 3

\* Concurrent requests in flight.
Procs == {"r1", "r2"}

\* ------------------------------------------------------------ values
\* JSON / BSON values, tagged with their type: two values are equal in a
\* store query only when type and content agree.
Unset == [t |-> "unset", v |-> ""]
Null == [t |-> "null", v |-> ""]
Missing == [t |-> "missing", v |-> ""]
Str(s) == [t |-> "string", v |-> s]
Bool(b) == [t |-> "bool", v |-> IF b THEN "true" ELSE "false"]
Date(s) == [t |-> "date", v |-> s]

\* pydantic's Optional[datetime]: an ISO string becomes a datetime, null stays null.
ParseDatetime(x) == IF x.t = "string" THEN Date(x.v) ELSE x

\* str(ObjectId) and ObjectId(str): the hex form of an id, and its parse
\* (0 stands for bson.errors.InvalidId).
StrOid(n) == <<"hex", n>>
InvalidId == 0
ObjectId(s) == IF s[1] = "hex" THEN s[2] ELSE InvalidId

\* ------------------------------------------------------------ status codes
HTTP_200_OK == 200
HTTP_400_BAD_REQUEST == 400
HTTP_401_UNAUTHORIZED == 401
HTTP_404_NOT_FOUND == 404
HTTP_422_UNPROCESSABLE == 422
HTTP_500_SERVER_ERROR == 500

\* `except Exception as e: raise HTTPException(status_code=500, ...)`:
\* HTTPException is an Exception, so whatever the try block raised, the
\* HTTPException it raised itself included, leaves the handler as a 500.
ExceptException(raised) == HTTP_500_SERVER_ERROR

\* ------------------------------------------------------------ models.py
TaskFields == {"title", "description", "category", "priority", "due_date"}
UpdateFields == TaskFields \cup {"completed"}

NoPayload ==
  [title |-> Unset, description |-> Unset, category |-> Unset,
   priority |-> Unset, due_date |-> Unset, completed |-> Unset]

\* TaskBase: title is a required str; the other fields are Optional.
TaskBaseValid(p) == p.title.t = "string"

\* TaskCreate(...).dict(): every TaskBase field, defaults filled in, and
\* nothing else (TaskCreate has no completed field).
TaskCreateDict(p) ==
  [title |-> p.title,
   description |-> IF p.description = Unset THEN Null ELSE p.description,
   category |-> IF p.category = Unset THEN Null ELSE p.category,
   priority |-> IF p.priority = Unset THEN Str("medium") ELSE p.priority,
   due_date |-> IF p.due_date = Unset THEN Null ELSE ParseDatetime(p.due_date)]

\* TaskUpdate(...).dict(exclude_unset=True): the fields the request set.
TaskUpdateDict(p) ==
  [f \in UpdateFields |->
     IF f = "due_date" THEN ParseDatetime(p[f]) ELSE p[f]]

\* response_model=Task: completed defaults to False when the document has none.
TaskResponse(doc) ==
  [doc EXCEPT !.completed = IF doc.completed = Missing THEN Bool(FALSE) ELSE @]

\* ------------------------------------------------------------ state
VARIABLES
  users,    \* db.users, in natural (insertion) order
  tasks,    \* db.tasks, in natural (insertion) order
  nextOid,  \* the next ObjectId() value
  now,      \* the last value datetime.utcnow() returned
  pc,       \* per request slot: the await the handler is suspended at
  local,    \* per request slot: the handler's local variables
  resp      \* the response the last step sent, NoResp when it sent none

vars == <<users, tasks, nextOid, now, pc, local, resp>>

\* get_tasks' optional query parameters, all None.
NoQuery == [category |-> Null, priority |-> Null, completed |-> Null, due_date |-> Null]

NoLocal ==
  [user |-> 0, oid |-> 0, data |-> NoPayload, email |-> "", username |-> "",
   password |-> "", query |-> NoQuery, page |-> 0, limit |-> 0, total |-> 0]

\* The token field of a response that carries no token.
NoToken == <<"none", "">>

NoResp ==
  [op |-> "none", status |-> 0, user |-> 0, oid |-> 0, tasks |-> <<>>,
   total |-> 0, token |-> NoToken, email |-> "", ident |-> "", password |-> "",
   data |-> NoPayload, query |-> NoQuery, page |-> 0, limit |-> 0]

Init ==
  /\ users = <<>>
  /\ tasks = <<>>
  /\ nextOid = 1
  /\ now = 0
  /\ pc = [p \in Procs |-> "idle"]
  /\ local = [p \in Procs |-> NoLocal]
  /\ resp = NoResp

\* A handler runs its next step once the last response has gone out; it is
\* at the await `at`, or, when idle, free to take a new request.
Ready(p, at) == resp = NoResp /\ pc[p] = at
Free(p) == Ready(p, "idle")

\* The response of the last step goes out to its client.
Deliver ==
  /\ resp /= NoResp
  /\ resp' = NoResp
  /\ UNCHANGED <<users, tasks, nextOid, now, pc, local>>

\* The handler returns or raises: the slot holds its response.
Finish(p, r) ==
  /\ pc' = [pc EXCEPT ![p] = "idle"]
  /\ local' = [local EXCEPT ![p] = NoLocal]
  /\ resp' = r

\* The handler suspends at its next await.
Suspend(p, at, l) ==
  /\ pc' = [pc EXCEPT ![p] = at]
  /\ local' = [local EXCEPT ![p] = l]
  /\ resp' = NoResp

\* ------------------------------------------------------------ auth.py
\* get_password_hash / verify_password: a digest verifies against the
\* plaintext it was made from, and no other.
get_password_hash(password) == <<"bcrypt", password>>
verify_password(password, hashed) == hashed = <<"bcrypt", password>>

\* create_access_token(data={"sub": email}): a signed token carrying its
\* subject, and the subject a verified token decodes to.
create_access_token(sub) == <<"jwt", sub>>
TokenSubject(token) == token[2]

\* get_current_user: the stored user whose email is the token's subject.
get_current_user(token) ==
  users[CHOOSE i \in 1..Len(users) : users[i].email = TokenSubject(token)]

\* The service keeps no registry of tokens: a request is authenticated when
\* its token is one create_access_token makes and get_current_user finds the
\* subject among the stored users.
Authenticated(token) ==
  \E i \in 1..Len(users) : token = create_access_token(users[i].email)

\* The bearer tokens the model's requests carry.
Tokens == {create_access_token(e) : e \in {"a@x.io", "m@x.io"}}

\* ------------------------------------------------------------ the store
\* find_one: of the places of the documents a filter accepts, the first in
\* natural order (0 when it accepts none).
FirstIndex(hit) ==
  IF hit = {} THEN 0 ELSE CHOOSE i \in hit : \A j \in hit : i <= j

\* The unique index on users.email (create_indexes): insert_one raises
\* DuplicateKeyError when a stored user already has the email.
DuplicateKey(email) == \E i \in 1..Len(users) : users[i].email = email

\* ------------------------------------------------------------ register_user
\* The UserCreate bodies the model posts. The second user's username is the
\* first user's email (no index makes usernames unique, and a username may
\* have the form of an email).
UserCreates ==
  { [username |-> "alice", email |-> "a@x.io", password |-> "pa"],
    [username |-> "a@x.io", email |-> "m@x.io", password |-> "pm"] }

RegResp(status, user) ==
  [NoResp EXCEPT !.op = "register", !.status = status, !.email = user.email]

\* Line 46: await db.users.find_one({"email": user.email}), and the raise of
\* line 47 when it finds one.
RegisterFind(p, user) ==
  /\ Free(p)
  /\ IF FirstIndex({i \in 1..Len(users) : users[i].email = user.email}) /= 0
       THEN Finish(p, RegResp(ExceptException(HTTP_400_BAD_REQUEST), user))
       ELSE Suspend(p, "register_insert",
                    [NoLocal EXCEPT !.email = user.email,
                                    !.username = user.username,
                                    !.password = user.password])
  /\ UNCHANGED <<users, tasks, nextOid, now>>

\* Lines 50-73: the user document, await db.users.insert_one, the response.
RegisterInsert(p) ==
  /\ Ready(p, "register_insert")
  /\ LET user_dict == [id |-> nextOid,
                       username |-> local[p].username,
                       email |-> local[p].email,
                       hashed_password |-> get_password_hash(local[p].password)]
     IN IF DuplicateKey(user_dict.email)
          THEN /\ Finish(p, RegResp(ExceptException(0), user_dict))
               /\ UNCHANGED <<users, nextOid>>
          ELSE /\ nextOid <= MaxOid
               /\ users' = Append(users, user_dict)
               /\ nextOid' = nextOid + 1
               /\ Finish(p, [RegResp(HTTP_200_OK, user_dict) EXCEPT !.user = user_dict.id])
  /\ UNCHANGED <<tasks, now>>

\* ------------------------------------------------------------ login
\* The credentials the model posts: every identifier with every password.
Identifiers == {"a@x.io", "m@x.io", "alice", "nobody"}
Passwords == {"pa", "pm"}
Credentials == Identifiers \X Passwords

\* Lines 88-93: find_one({"$or": [{"email": x}, {"username": x}]}).
LoginFind(emailOrUsername) ==
  FirstIndex({i \in 1..Len(users) : \/ users[i].email = emailOrUsername
                                     \/ users[i].username = emailOrUsername})

\* Lines 80-111, one await.
Login(p, emailOrUsername, password) ==
  /\ Free(p)
  /\ LET i == LoginFind(emailOrUsername)
         r == [NoResp EXCEPT !.op = "login", !.ident = emailOrUsername,
                             !.password = password]
     IN IF i = 0 \/ ~verify_password(password, users[i].hashed_password)
          THEN Finish(p, [r EXCEPT !.status = ExceptException(HTTP_401_UNAUTHORIZED)])
          ELSE Finish(p, [r EXCEPT !.status = HTTP_200_OK,
                                   !.token = create_access_token(users[i].email)])
  /\ UNCHANGED <<users, tasks, nextOid, now>>

\* ------------------------------------------------------------ tasks
\* The path parameter task_id: the hex form of an id generated so far (a
\* task's, stored or deleted, or a user's), or a malformed string.
TaskIds(malformed) ==
  {StrOid(n) : n \in 1..(nextOid - 1)} \cup (IF malformed THEN {<<"bad", 0>>} ELSE {})

\* The TaskCreate bodies the model posts (the last has no title).
TaskCreates ==
  { [NoPayload EXCEPT !.title = Str("Buy milk")],
    [NoPayload EXCEPT !.title = Str("Pay rent"), !.category = Str("work"),
                      !.priority = Str("high"), !.due_date = Str("2024-01-01")],
    NoPayload }

\* The TaskUpdate bodies the model puts.
TaskUpdates ==
  { NoPayload,
    [NoPayload EXCEPT !.completed = Bool(TRUE)],
    [NoPayload EXCEPT !.title = Str("Buy milk"), !.completed = Bool(TRUE)],
    [NoPayload EXCEPT !.title = Str("Pay rent"), !.priority = Str("low"),
                      !.completed = Bool(FALSE)] }

TaskResp(op, status, user, oid, data, docs) ==
  [NoResp EXCEPT !.op = op, !.status = status, !.user = user, !.oid = oid,
                 !.data = data, !.tasks = docs]

\* find_one({"_id": oid}) on db.tasks.
FindById(oid) == FirstIndex({i \in 1..Len(tasks) : tasks[i].id = oid})

\* A find_one that forgets the owner: {"_id": oid} alone.
FindOwnedAnyOwner(oid, user_id) ==
  FirstIndex({i \in 1..Len(tasks) : tasks[i].id = oid})

\* find_one({"_id": oid, "user_id": user_id}) on db.tasks.
FindOwned(oid, user_id) ==
  FirstIndex({i \in 1..Len(tasks) : tasks[i].id = oid /\ tasks[i].user_id = user_id})

\* Lines 115-120: the task document and await db.tasks.insert_one.
CreateTaskInsert(p, token, task) ==
  /\ Free(p)
  /\ Authenticated(token)
  /\ LET current_user == get_current_user(token)
     IN IF ~TaskBaseValid(task)
          THEN /\ Finish(p, TaskResp("create", HTTP_422_UNPROCESSABLE,
                                     current_user.id, 0, task, <<>>))
               /\ UNCHANGED <<tasks, nextOid, now>>
          ELSE /\ nextOid <= MaxOid
               /\ now < MaxTime
               /\ now' = now + 1
               /\ tasks' = Append(tasks,
                    [id |-> nextOid,
                     user_id |-> StrOid(current_user.id),
                     completed |-> Missing,
                     created_at |-> now',
                     updated_at |-> 0] @@ TaskCreateDict(task))
               /\ nextOid' = nextOid + 1
               /\ Suspend(p, "create_find",
                          [NoLocal EXCEPT !.user = current_user.id, !.oid = nextOid,
                                          !.data = task])
  /\ UNCHANGED users

\* Lines 122-124: await db.tasks.find_one({"_id": ...}) and the response;
\* None.pop raises when the document is gone.
CreateTaskFind(p) ==
  /\ Ready(p, "create_find")
  /\ LET i == FindById(local[p].oid)
     IN IF i = 0
          THEN Finish(p, TaskResp("create", ExceptException(0), local[p].user,
                                  local[p].oid, local[p].data, <<>>))
          ELSE Finish(p, TaskResp("create", HTTP_200_OK, local[p].user,
                                  local[p].oid, local[p].data,
                                  <<TaskResponse(tasks[i])>>))
  /\ UNCHANGED <<users, tasks, nextOid, now>>

\* {"$set": update_data} on one document.
ApplySet(doc, update_data, t) ==
  [f \in DOMAIN doc |->
     IF f = "updated_at" THEN t
     ELSE IF f \in UpdateFields /\ update_data[f] /= Unset THEN update_data[f]
     ELSE doc[f]]

\* An update_one with upsert=True: a document is inserted when none has the id.
UpdateOneUpsert(coll, oid, update_data, t) ==
  IF \E i \in 1..Len(coll) : coll[i].id = oid
    THEN [i \in 1..Len(coll) |->
            IF coll[i].id = oid THEN ApplySet(coll[i], update_data, t) ELSE coll[i]]
    ELSE Append(coll,
           ApplySet([id |-> oid, user_id |-> StrOid(0), title |-> Missing,
                     description |-> Missing, category |-> Missing,
                     priority |-> Missing, due_date |-> Missing,
                     completed |-> Missing, created_at |-> 0, updated_at |-> 0],
                    update_data, t))

\* update_one({"_id": oid}, {"$set": ...}): no upsert.
UpdateOne(coll, oid, update_data, t) ==
  [i \in 1..Len(coll) |->
     IF coll[i].id = oid THEN ApplySet(coll[i], update_data, t) ELSE coll[i]]

\* delete_one({"_id": oid}).
DeleteOne(coll, oid) == SelectSeq(coll, LAMBDA d : d.id /= oid)

\* Lines 135-142: ObjectId(task_id), the ownership find_one, the 404.
UpdateTaskFind(p, token, task_id, task_update) ==
  /\ Free(p)
  /\ Authenticated(token)
  /\ LET current_user == get_current_user(token)
         task_oid == ObjectId(task_id)
         r(status) == TaskResp("update", status, current_user.id, task_oid,
                               task_update, <<>>)
     IN IF ~TaskBaseValid(task_update)
          THEN Finish(p, r(HTTP_422_UNPROCESSABLE))
          ELSE IF task_oid = InvalidId
          THEN Finish(p, r(ExceptException(0)))
          ELSE IF FindOwned(task_oid, StrOid(current_user.id)) = 0
          THEN Finish(p, r(ExceptException(HTTP_404_NOT_FOUND)))
          ELSE Suspend(p, "update_write",
                       [NoLocal EXCEPT !.user = current_user.id, !.oid = task_oid,
                                       !.data = task_update])
  /\ UNCHANGED <<users, tasks, nextOid, now>>

\* Lines 144-150: update_data, updated_at, await db.tasks.update_one.
UpdateTaskWrite(p) ==
  /\ Ready(p, "update_write")
  /\ now < MaxTime
  /\ now' = now + 1
  /\ tasks' = UpdateOne(tasks, local[p].oid, TaskUpdateDict(local[p].data), now')
  /\ Suspend(p, "update_read", local[p])
  /\ UNCHANGED <<users, nextOid>>

\* Lines 152-154: await db.tasks.find_one({"_id": task_oid}) and the response.
UpdateTaskRead(p) ==
  /\ Ready(p, "update_read")
  /\ LET i == FindById(local[p].oid)
         r(status, docs) == TaskResp("update", status, local[p].user, local[p].oid,
                                     local[p].data, docs)
     IN IF i = 0
          THEN Finish(p, r(ExceptException(0), <<>>))
          ELSE Finish(p, r(HTTP_200_OK, <<TaskResponse(tasks[i])>>))
  /\ UNCHANGED <<users, tasks, nextOid, now>>

\* Lines 161-168: ObjectId(task_id), the ownership find_one, the 404.
DeleteTaskFind(p, token, task_id) ==
  /\ Free(p)
  /\ Authenticated(token)
  /\ LET current_user == get_current_user(token)
         task_oid == ObjectId(task_id)
         r(status) == TaskResp("delete", status, current_user.id, task_oid,
                               NoPayload, <<>>)
     IN IF task_oid = InvalidId
          THEN Finish(p, r(ExceptException(0)))
          ELSE IF FindOwned(task_oid, StrOid(current_user.id)) = 0
          THEN Finish(p, r(ExceptException(HTTP_404_NOT_FOUND)))
          ELSE Suspend(p, "delete_write",
                       [NoLocal EXCEPT !.user = current_user.id, !.oid = task_oid])
  /\ UNCHANGED <<users, tasks, nextOid, now>>

\* Lines 170-171: await db.tasks.delete_one({"_id": task_oid}).
DeleteTaskWrite(p) ==
  /\ Ready(p, "delete_write")
  /\ tasks' = DeleteOne(tasks, local[p].oid)
  /\ Finish(p, TaskResp("delete", HTTP_200_OK, local[p].user, local[p].oid,
                         NoPayload, <<>>))
  /\ UNCHANGED <<users, nextOid, now>>

\* ------------------------------------------------------------ get_tasks
\* Python truthiness of an Optional[str] parameter: None and "" are false.
Truthy(x) == x /= Null /\ x /= Str("")

FilterFields == {"category", "priority", "completed", "due_date"}

\* Lines 187-196: the query document; a key that is Unset is not in it.
BuildQuery(user_id, q) ==
  [user_id |-> user_id,
   category |-> IF Truthy(q.category) THEN q.category ELSE Unset,
   priority |-> IF Truthy(q.priority) THEN q.priority ELSE Unset,
   completed |-> IF q.completed /= Null THEN q.completed ELSE Unset,
   due_date |-> IF Truthy(q.due_date) THEN q.due_date ELSE Unset]

\* The store's match of one document against the query document: every key
\* of the query equals the document's value, in type and content.
Matches(doc, query) ==
  /\ doc.user_id = query.user_id
  /\ \A f \in FilterFields : query[f] = Unset \/ doc[f] = query[f]

\* db.tasks.count_documents(query).
CountDocuments(coll, query) ==
  Len(SelectSeq(coll, LAMBDA d : Matches(d, query)))

\* A skip that counts pages from zero.
SkipFromZero(page, limit) == page * limit

\* Line 186.
Skip(page, limit) == (page - 1) * limit

\* db.tasks.find(query).skip(skip).limit(limit), in natural order.
FindSkipLimit(coll, query, skip, limit) ==
  LET hit == SelectSeq(coll, LAMBDA d : Matches(d, query))
      last == IF skip + limit < Len(hit) THEN skip + limit ELSE Len(hit)
  IN SubSeq(hit, skip + 1, last)

\* The query strings the model sends: every page of every limit without
\* filters, and the first page under each of a few filters.
Filtered ==
  { [NoQuery EXCEPT !.completed = Bool(FALSE)],
    [NoQuery EXCEPT !.completed = Bool(TRUE)],
    [NoQuery EXCEPT !.due_date = Str("2024-01-01")],
    [NoQuery EXCEPT !.category = Str("work"), !.priority = Str("high")] }

Listings ==
  {<<page, limit, NoQuery>> : page \in 1..MaxPage, limit \in 1..MaxLimit}
    \cup {<<1, MaxLimit, q>> : q \in Filtered}

ListResp(user, q, page, limit, total, docs) ==
  [NoResp EXCEPT !.op = "list", !.status = HTTP_200_OK, !.user = user,
                 !.query = q, !.page = page, !.limit = limit,
                 !.total = total, !.tasks = docs]

\* Lines 186-198: skip, the query and await db.tasks.count_documents.
GetTasksCount(p, token, page, limit, q) ==
  /\ Free(p)
  /\ Authenticated(token)
  /\ LET current_user == get_current_user(token)
     IN Suspend(p, "list_find",
                [NoLocal EXCEPT !.user = current_user.id, !.query = q,
                                !.page = page, !.limit = limit,
                                !.total = CountDocuments(tasks,
                                            BuildQuery(StrOid(current_user.id), q))])
  /\ UNCHANGED <<users, tasks, nextOid, now>>

\* Lines 199-211: the cursor is read and the page returned.
GetTasksFind(p) ==
  /\ Ready(p, "list_find")
  /\ LET l == local[p]
     IN Finish(p, ListResp(l.user, l.query, l.page, l.limit, l.total,
                           FindSkipLimit(tasks, BuildQuery(StrOid(l.user), l.query),
                                         Skip(l.page, l.limit), l.limit)))
  /\ UNCHANGED <<users, tasks, nextOid, now>>

\* ------------------------------------------------------------ specification
\* The requests one slot may start or resume, with the request bodies
\* drawn from the sets of `inputs`.
Step(p, inputs) ==
  \/ \E user \in inputs.users : RegisterFind(p, user)
  \/ RegisterInsert(p)
  \/ \E c \in inputs.credentials : Login(p, c[1], c[2])
  \/ \E tok \in Tokens, task \in inputs.creates : CreateTaskInsert(p, tok, task)
  \/ CreateTaskFind(p)
  \/ \E tok \in Tokens, id \in TaskIds(inputs.malformed), upd \in inputs.updates :
       UpdateTaskFind(p, tok, id, upd)
  \/ UpdateTaskWrite(p)
  \/ UpdateTaskRead(p)
  \/ \E tok \in Tokens, id \in TaskIds(inputs.malformed) : DeleteTaskFind(p, tok, id)
  \/ DeleteTaskWrite(p)
  \/ \E tok \in Tokens, l \in inputs.listings : GetTasksCount(p, tok, l[1], l[2], l[3])
  \/ GetTasksFind(p)

\* Requests arrive at any time and their handlers interleave at the awaits.
\* The task ids are the well-formed ones, a user's own or not.
Concurrent ==
  [users |-> UserCreates,
   credentials |-> {<<"alice", "pa">>, <<"m@x.io", "pm">>, <<"a@x.io", "pa">>},
   creates |-> {[NoPayload EXCEPT !.title = Str("Buy milk")]},
   malformed |-> FALSE,
   updates |-> {[NoPayload EXCEPT !.title = Str("Buy milk"), !.completed = Bool(TRUE)]},
   listings |-> {<<1, MaxLimit, NoQuery>>}]

Next ==
  \/ Deliver
  \/ \E p \in Procs : Step(p, Concurrent)

Spec == Init /\ [][Next]_vars

\* One request at a time: each handler runs to its response before the next
\* request arrives (no concurrent mutation), with every body of the model.
Sequential ==
  [users |-> UserCreates,
   credentials |-> Credentials,
   creates |-> TaskCreates,
   malformed |-> TRUE,
   updates |-> TaskUpdates,
   listings |-> Listings]

NextSeq ==
  \/ Deliver
  \/ Step("r1", Sequential)

SpecSeq == Init /\ [][NextSeq]_vars

\* ------------------------------------------------------------ properties
\* The tasks a user owns, in natural order.
TasksOf(uid) == SelectSeq(tasks, LAMBDA d : d.user_id = StrOid(uid))

\* The slot whose handler performs the write of this step, if any.
Writes(p) == pc[p] \in {"update_write", "delete_write"} /\ pc'[p] /= pc[p]

\* C1: ownership isolation. No response carries a task of another user than
\* the caller, and a stored task is changed or removed only by a write of a
\* request authenticated as its owner, whatever id other users supply.
OwnershipIsolation ==
  [][ /\ \A i \in 1..Len(resp'.tasks) : resp'.tasks[i].user_id = StrOid(resp'.user)
      /\ \A i \in 1..Len(tasks) :
           (\A j \in 1..Len(tasks') : tasks'[j] /= tasks[i])
             => \E p \in Procs : Writes(p) /\ StrOid(local[p].user) = tasks[i].user_id
    ]_vars

\* An update or delete that names another user's stored task has been refused.
ForeignIdRefused ==
  /\ resp.op \in {"update", "delete"}
  /\ resp.status /= HTTP_200_OK
  /\ \E i \in 1..Len(tasks) :
       tasks[i].id = resp.oid /\ tasks[i].user_id /= StrOid(resp.user)

\* C10: deletion is permanent. An id that was generated and is not in the
\* tasks collection is in it after no step, and no response carries a task
\* that is not stored.
DeletionIsPermanent ==
  [][ /\ \A id \in 1..MaxOid :
           (id < nextOid /\ \A i \in 1..Len(tasks) : tasks[i].id /= id)
             => \A j \in 1..Len(tasks') : tasks'[j].id /= id
      /\ \A i \in 1..Len(resp'.tasks) :
           \E j \in 1..Len(tasks') : tasks'[j].id = resp'.tasks[i].id
    ]_vars

\* An update_one has run on a task that a delete_one removed after the
\* update's ownership check, and the task is still gone.
UpdateAfterDelete ==
  \E p \in Procs :
    /\ pc[p] = "update_read"
    /\ FindById(local[p].oid) = 0

\* The pages 1..ceil(n/limit) of a user's unfiltered listing.
PageCount(n, limit) == (n + limit - 1) \div limit

UnfilteredPage(uid, page, limit) ==
  FindSkipLimit(tasks, BuildQuery(StrOid(uid), NoQuery), Skip(page, limit), limit)

\* C8: without concurrent mutation an unfiltered listing reports as total the
\* number of the caller's tasks whatever the page, its page is the
\* (page-1)*limit-th slice of them, and over the pages 1..ceil(total/limit)
\* of that limit every task of the caller is at exactly one place of exactly
\* one page, and nothing else is on a page.
PagesPartitionTasks ==
  (resp.op = "list" /\ resp.query = NoQuery) =>
    LET mine == TasksOf(resp.user)
        first == (resp.page - 1) * resp.limit + 1
        last == IF resp.page * resp.limit < Len(mine)
                  THEN resp.page * resp.limit ELSE Len(mine)
        pages == 1..PageCount(resp.total, resp.limit)
        got == [page \in pages |-> UnfilteredPage(resp.user, page, resp.limit)]
    IN /\ resp.total = Len(mine)
       /\ resp.tasks = SubSeq(mine, first, last)
       /\ resp.page \in pages => got[resp.page] = resp.tasks
       /\ \A page \in pages :
            \A i \in 1..Len(got[page]) : got[page][i].user_id = StrOid(resp.user)
       /\ \A k \in 1..Len(mine) :
            Cardinality({ pi \in pages \X (1..resp.limit) :
                            /\ pi[2] <= Len(got[pi[1]])
                            /\ got[pi[1]][pi[2]].id = mine[k].id
                        }) = 1

\* The second page of a three-task listing has been returned.
SecondPageReturned ==
  /\ resp.op = "list"
  /\ resp.query = NoQuery
  /\ resp.page = 2
  /\ resp.limit = 2
  /\ resp.total = 3
  /\ Len(resp.tasks) = 1

\* C2: a register_user for an email that is already stored when its find_one
\* or its insert_one runs is answered with 400 and stores nothing; the first
\* registration of an email is answered with 200 and stores the user.
DuplicateEmailIsConflict ==
  [][ resp'.op = "register" =>
        IF \E i \in 1..Len(users) : users[i].email = resp'.email
          THEN resp'.status = HTTP_400_BAD_REQUEST /\ users' = users
          ELSE /\ resp'.status = HTTP_200_OK
               /\ Len(users') = Len(users) + 1
               /\ users'[Len(users')].email = resp'.email
    ]_vars

\* C3: an update_task or delete_task whose well-formed id matches no stored
\* task of the caller is answered with 404 and leaves the tasks unchanged.
UnknownTaskIsNotFound ==
  [][ ( /\ resp'.op \in {"update", "delete"}
        /\ resp'.status /= HTTP_422_UNPROCESSABLE
        /\ resp'.oid /= InvalidId
        /\ pc' = pc
        /\ FindOwned(resp'.oid, StrOid(resp'.user)) = 0 )
        => resp'.status = HTTP_404_NOT_FOUND /\ tasks' = tasks
    ]_vars

\* C4: a login whose identifier matches no stored user, or whose password
\* does not verify against the matched user, is answered with 401 and issues
\* no token.
BadCredentialsAreUnauthenticated ==
  (resp.op = "login" /\
     LET i == LoginFind(resp.ident)
     IN i = 0 \/ ~verify_password(resp.password, users[i].hashed_password))
    => resp.status = HTTP_401_UNAUTHORIZED /\ resp.token = NoToken

\* C5: a login with a registered user's email or username and that user's
\* password is answered with 200 and a token whose subject is that user's
\* email, whatever the other users' usernames and emails are.
OwnCredentialsLogIn ==
  resp.op = "login" =>
    \A i \in 1..Len(users) :
      ( /\ resp.ident \in {users[i].email, users[i].username}
        /\ verify_password(resp.password, users[i].hashed_password) )
        => /\ resp.status = HTTP_200_OK
           /\ resp.token /= NoToken
           /\ TokenSubject(resp.token) = users[i].email

\* The page holds the document, or is full.
InPage(doc, r) ==
  (\E i \in 1..Len(r.tasks) : r.tasks[i].id = doc.id) \/ Len(r.tasks) = r.limit

\* C6: a task created without a completed field is answered with
\* completed=false, priority "medium" unless supplied and the caller as
\* user_id; the caller's listing with completed=false returns it until an
\* update completes it, after which the listing with completed=true returns
\* it and the listing with completed=false does not.
CreatedTaskIsListedOpen ==
  /\ (resp.op = "create" /\ resp.status = HTTP_200_OK) =>
       /\ resp.tasks[1].completed = Bool(FALSE)
       /\ resp.tasks[1].user_id = StrOid(resp.user)
       /\ resp.data.priority = Unset => resp.tasks[1].priority = Str("medium")
  /\ (resp.op = "list" /\ resp.page = 1
        /\ resp.query = [NoQuery EXCEPT !.completed = Bool(FALSE)]) =>
       \A i \in 1..Len(tasks) :
         /\ (tasks[i].user_id = StrOid(resp.user) /\ tasks[i].updated_at = 0)
              => InPage(tasks[i], resp)
         /\ tasks[i].completed = Bool(TRUE)
              => \A j \in 1..Len(resp.tasks) : resp.tasks[j].id /= tasks[i].id
  /\ (resp.op = "list" /\ resp.page = 1
        /\ resp.query = [NoQuery EXCEPT !.completed = Bool(TRUE)]) =>
       \A i \in 1..Len(tasks) :
         (tasks[i].user_id = StrOid(resp.user) /\ tasks[i].completed = Bool(TRUE))
           => InPage(tasks[i], resp)

\* A document after a partial update: the payload's fields and updated_at set.
Updated(doc, data, t) ==
  [f \in DOMAIN doc |->
     IF f = "updated_at" THEN t
     ELSE IF f \in UpdateFields /\ data[f] /= Unset
       THEN (IF f = "due_date" THEN ParseDatetime(data[f]) ELSE data[f])
     ELSE doc[f]]

\* C7: update_task on a task of the caller succeeds whatever fields the
\* payload holds, the empty payload included, and its update_one sets the
\* payload's fields and updated_at (to the current time) and nothing else.
UpdateChangesPayloadFieldsOnly ==
  [][ /\ \A p \in Procs :
           (pc[p] = "update_write" /\ pc'[p] = "update_read") =>
             \A i \in 1..Len(tasks) :
               /\ Len(tasks') = Len(tasks)
               /\ tasks'[i] = IF tasks[i].id = local[p].oid
                                THEN Updated(tasks[i], local[p].data, now')
                                ELSE tasks[i]
      /\ ( /\ resp'.op = "update"
           /\ FindOwned(resp'.oid, StrOid(resp'.user)) /= 0 )
           => /\ resp'.status = HTTP_200_OK
              /\ resp'.tasks[1].updated_at = now'
    ]_vars

\* The stored values equal the values of the supplied filters.
StoredEquals(doc, q) ==
  /\ q.category /= Null => doc.category = q.category
  /\ q.priority /= Null => doc.priority = q.priority
  /\ q.completed /= Null => doc.completed = q.completed
  /\ q.due_date /= Null => doc.due_date = ParseDatetime(q.due_date)

\* C9: get_tasks returns the caller's tasks whose stored value equals the
\* supplied value for every supplied filter, a due_date filter d matching
\* the tasks whose stored due_date is d, and total counts those tasks.
FiltersMatchStoredValues ==
  resp.op = "list" =>
    LET hit == SelectSeq(TasksOf(resp.user), LAMBDA d : StoredEquals(d, resp.query))
        first == (resp.page - 1) * resp.limit + 1
        last == IF resp.page * resp.limit < Len(hit)
                  THEN resp.page * resp.limit ELSE Len(hit)
    IN /\ resp.total = Len(hit)
       /\ resp.tasks = SubSeq(hit, first, last)

====
